---------------------------- MODULE Spec2Model ----------------------------
(***************************************************************************)
(* Model of HttpQueryForwarder (src/main.py): the settings loader, the URL *)
(* construction, the single GET and the mapping of the server's JSON array *)
(* into result entries.                                                    *)
(*                                                                         *)
(* Text is a sequence of one-character strings, so that percent-encoding,  *)
(* splitting and substitution are computed character by character.         *)
(* A YAML/JSON value is a tagged record [t |-> tag, v |-> payload].        *)
(* A Python call that may raise yields [exc |-> class, val |-> value].     *)
(* A name ending in a digit is a step of the definition of that name       *)
(* without the digit, taking the values computed so far as parameters.     *)
(***************************************************************************)
EXTENDS Integers, Sequences, FiniteSets, TLC

VARIABLES
    file,      \* the settings file on disk: [kind, doc]
    pc,        \* "idle" | "waiting" (GET in flight) | "done" | "raised"
    param,     \* the query text of the current/last invocation
    loaded,    \* the settings file as the invocation found it
    settings,  \* effective_settings of the invocation
    used,      \* the values query derived from the effective settings
    url,       \* current_url_for_error_reporting / the requested URL
    gets,      \* number of GETs issued by the current/last invocation
    response,  \* the server outcome the invocation received
    results,   \* the list query returned
    menu_data, \* the payload (data) of the last context_menu call
    menu_pc,   \* "idle" | "done" (context_menu returned) | "raised"
    menu_results, \* the list context_menu returned
    call,      \* the last callback invocation: its arguments, emissions, outcome
    self       \* the handler's fields: settings, plugindir, icon,
               \* resolved_default_icon_path

vars == <<file, pc, param, loaded, settings, used, url, gets, response, results,
          menu_data, menu_pc, menu_results, call, self>>
\* What query leaves alone: the state of context_menu and of the callbacks,
\* and the handler's fields, which no method assigns after __init__
hostVars == <<menu_data, menu_pc, menu_results, call, self>>

(***************************************************************************)
(* Bounds of the model.                                                    *)
(***************************************************************************)
MaxQueryLen == 2        \* query texts: all texts over QueryAlphabet up to this length
MaxKeysSet == 2         \* settings files set at most this many keys
MaxArrayLen == 3        \* response arrays of SpecMap: up to this many elements
MaxBaseArrayLen == 1    \* response arrays of Spec: up to this many elements

(***************************************************************************)
(* Text helpers (Python str methods).                                      *)
(***************************************************************************)
Digits == <<"0", "1", "2", "3", "4", "5", "6", "7", "8", "9">>
UpperLetters == <<"A", "B", "C", "D", "E", "F", "G", "H", "I", "J", "K", "L", "M",
                  "N", "O", "P", "Q", "R", "S", "T", "U", "V", "W", "X", "Y", "Z">>
LowerLetters == <<"a", "b", "c", "d", "e", "f", "g", "h", "i", "j", "k", "l", "m",
                  "n", "o", "p", "q", "r", "s", "t", "u", "v", "w", "x", "y", "z">>
Range(s) == {s[i] : i \in DOMAIN s}
DigitSet == Range(Digits)
LetterSet == Range(UpperLetters) \cup Range(LowerLetters)
Whitespace == {" ", "\t", "\n"}
IsDigit(c) == c \in DigitSet
IsAlpha(c) == c \in LetterSet
DigitVal(c) == (CHOOSE i \in DOMAIN Digits : Digits[i] = c) - 1
\* str.lower() of one character
LowerChar(c) ==
    IF c \in Range(UpperLetters)
    THEN LowerLetters[CHOOSE i \in DOMAIN UpperLetters : UpperLetters[i] = c]
    ELSE c
\* str.lower()
Lower(s) == [i \in DOMAIN s |-> LowerChar(s[i])]
\* s[i:] and s[:i] with 1-based i
From(s, i) == IF i > Len(s) THEN <<>> ELSE SubSeq(s, i, Len(s))
Upto(s, i) == IF i < 1 THEN <<>> ELSE SubSeq(s, 1, i)
\* str.startswith
StartsWith(s, p) == Len(s) >= Len(p) /\ SubSeq(s, 1, Len(p)) = p
\* The least index of a set of indexes, 0 for none
FirstOf(hits) == IF hits = {} THEN 0 ELSE CHOOSE j \in hits : \A k \in hits : j <= k
\* str.find from position i: the first index >= i of a character of cs, 0 if none
FindChar(s, cs, i) == FirstOf({j \in i..Len(s) : s[j] \in cs})
\* `p in s`
Contains(s, p) == \E i \in 1..(Len(s) - Len(p) + 1) : SubSeq(s, i, i + Len(p) - 1) = p
RECURSIVE LStripSet(_, _)
\* str.lstrip(chars)
LStripSet(s, cs) == IF s # <<>> /\ s[1] \in cs THEN LStripSet(Tail(s), cs) ELSE s
RECURSIVE RStripSet(_, _)
\* str.rstrip(chars)
RStripSet(s, cs) ==
    IF s # <<>> /\ s[Len(s)] \in cs THEN RStripSet(SubSeq(s, 1, Len(s) - 1), cs) ELSE s
\* str.strip()
Strip(s) == RStripSet(LStripSet(s, Whitespace), Whitespace)
RECURSIVE ReplaceAll(_, _, _)
\* str.replace(old, new) for a non-empty old: left to right, non-overlapping,
\* the inserted text is not scanned again
ReplaceAll(s, old, new) ==
    IF s = <<>> THEN <<>>
    ELSE IF StartsWith(s, old) THEN new \o ReplaceAll(From(s, Len(old) + 1), old, new)
    ELSE <<s[1]>> \o ReplaceAll(Tail(s), old, new)
RECURSIVE DigitsVal(_)
\* The number a text of decimal digits denotes
DigitsVal(s) ==
    IF s = <<>> THEN 0
    ELSE 10 * DigitsVal(SubSeq(s, 1, Len(s) - 1)) + DigitVal(s[Len(s)])
RECURSIVE NatText(_)
NatText(n) ==
    IF n < 10 THEN <<Digits[n + 1]>> ELSE NatText(n \div 10) \o <<Digits[(n % 10) + 1]>>
\* str(int)
IntText(n) == IF n < 0 THEN <<"-">> \o NatText(-n) ELSE NatText(n)

(***************************************************************************)
(* YAML / JSON values as Python objects.                                   *)
(***************************************************************************)
JNull == [t |-> "null", v |-> 0]
JB(b) == [t |-> "bool", v |-> b]
JI(n) == [t |-> "int", v |-> n]
JF(tenths) == [t |-> "float", v |-> tenths]    \* the float tenths/10
JS(s) == [t |-> "str", v |-> s]
JL(seq) == [t |-> "list", v |-> seq]
JO(f) == [t |-> "obj", v |-> f]
EmptyObj == JO(<<>>)

\* bool(x)
Truthy(j) ==
    CASE j.t = "null" -> FALSE
      [] j.t = "bool" -> j.v
      [] j.t = "int" -> j.v # 0
      [] j.t = "float" -> j.v # 0
      [] j.t = "str" -> j.v # <<>>
      [] j.t = "list" -> j.v # <<>>
      [] j.t = "obj" -> DOMAIN j.v # {}

\* dict.get(key, default)
Get(obj, key, default) == IF key \in DOMAIN obj.v THEN obj.v[key] ELSE default

Ok(x) == [exc |-> "none", val |-> x]
Raise(e) == [exc |-> e, val |-> 0, msg |-> <<>>]
RaiseMsg(e, m) == [exc |-> e, val |-> 0, msg |-> m]

\* The digits of a stripped text, its sign removed
IntOfText2(b, body) ==
    IF body # <<>> /\ \A i \in DOMAIN body : IsDigit(body[i])
    THEN Ok(IF b[1] = "-" THEN -DigitsVal(body) ELSE DigitsVal(body))
    ELSE Raise("ValueError")
IntOfText1(b) == IntOfText2(b, IF b # <<>> /\ b[1] \in {"-", "+"} THEN Tail(b) ELSE b)
\* int(str): surrounding whitespace stripped, an optional sign, decimal digits
IntOfText(s) == IntOfText1(Strip(s))

\* int(x): truncation toward zero for a float, TypeError for None/list/dict
IntOf(j) ==
    CASE j.t = "int" -> Ok(j.v)
      [] j.t = "bool" -> Ok(IF j.v THEN 1 ELSE 0)
      [] j.t = "float" -> Ok(IF j.v < 0 THEN -((-j.v) \div 10) ELSE j.v \div 10)
      [] j.t = "str" -> IntOfText(j.v)
      [] OTHER -> Raise("TypeError")

\* str(x) for the values a setting can hold
PyStr(j) ==
    CASE j.t = "str" -> j.v
      [] j.t = "int" -> IntText(j.v)
      [] j.t = "bool" -> IF j.v THEN <<"T", "r", "u", "e">> ELSE <<"F", "a", "l", "s", "e">>
      [] j.t = "null" -> <<"N", "o", "n", "e">>
      [] OTHER -> <<"<repr>">>

(***************************************************************************)
(* _get_settings_from_file                                                 *)
(***************************************************************************)
T_http127 == <<"h", "t", "t", "p", ":", "/", "/", "1", "2", "7", ".", "0", ".", "0", ".", "1">>
T_8080 == <<"8", "0", "8", "0">>
T_true == <<"t", "r", "u", "e">>
T_false == <<"f", "a", "l", "s", "e">>
DefaultTimeout == 5

\* default_settings_map, in the order the loader walks it
SettingsKeys == <<"server_address", "server_port", "server_path", "query_param_name",
                  "url_encode_query", "request_timeout", "custom_url_template">>
DefaultSettingsMap ==
    [server_address |-> JS(T_http127),
     server_port |-> JS(T_8080),
     server_path |-> JS(<<"/">>),
     query_param_name |-> JS(<<"q">>),
     url_encode_query |-> JB(TRUE),
     request_timeout |-> JI(DefaultTimeout),
     custom_url_template |-> JS(<<>>)]

\* The request_timeout branch without the check that the value is positive
MergeTimeoutAnySign(r, default) ==
    IF r.exc = "none" THEN Ok(JI(r.val))
    ELSE IF r.exc = "ValueError" THEN Ok(default)
    ELSE r
\* The request_timeout branch, r being int(yaml_value): positive or the
\* default; only ValueError is handled here, any other exception leaves the
\* loop.
MergeTimeout1(r, default) ==
    IF r.exc = "none" THEN Ok(IF r.val <= 0 THEN default ELSE JI(r.val))
    ELSE IF r.exc = "ValueError" THEN Ok(default)
    ELSE r
MergeTimeout(y, default) == MergeTimeout1(IntOf(y), default)

\* The url_encode_query branch: a bool, or the strings true/false in any case
MergeEncode(y, default) ==
    IF y.t = "bool" THEN y
    ELSE IF y.t = "str"
         THEN IF Lower(y.v) = T_true THEN JB(TRUE)
              ELSE IF Lower(y.v) = T_false THEN JB(FALSE)
              ELSE default
    ELSE default

\* The remaining keys: isinstance(yaml_value, type(default_value)), all str
MergeTyped(y, default) == IF y.t = default.t THEN y ELSE default

\* The value one iteration of the loop gives the key, or the exception
MergeValue(key, y, default) ==
    IF key = "request_timeout" THEN MergeTimeout(y, default)
    ELSE IF key = "url_encode_query" THEN Ok(MergeEncode(y, default))
    ELSE Ok(MergeTyped(y, default))

RECURSIVE MergeFrom(_, _, _)
MergeFrom1(doc, eff, i, m) ==
    IF m.exc = "none" THEN MergeFrom(doc, [eff EXCEPT ![SettingsKeys[i]] = m.val], i + 1)
    ELSE eff
\* The loop over default_settings_map.items() from the i-th key on; an
\* exception raised inside it is caught by the enclosing `except Exception`,
\* which keeps effective_settings as it is at that moment.
MergeFrom(doc, eff, i) ==
    IF i > Len(SettingsKeys) THEN eff
    ELSE IF SettingsKeys[i] \notin DOMAIN doc.v THEN MergeFrom(doc, eff, i + 1)
    ELSE MergeFrom1(doc, eff, i,
                    MergeValue(SettingsKeys[i], doc.v[SettingsKeys[i]],
                               DefaultSettingsMap[SettingsKeys[i]]))

FileMissing == [kind |-> "missing", doc |-> JNull]
FileUnparsable == [kind |-> "unparsable", doc |-> JNull]   \* yaml.YAMLError
FileUnreadable == [kind |-> "unreadable", doc |-> JNull]   \* open/read raises
FileOf(doc) == [kind |-> "yaml", doc |-> doc]

\* effective_settings as the loader returns it
EffectiveSettings(f) ==
    IF f.kind = "yaml" /\ f.doc.t = "obj" THEN MergeFrom(f.doc, DefaultSettingsMap, 1)
    ELSE DefaultSettingsMap

\* The file as the loader leaves it: a missing file is created with the
\* defaults when the directory can be written.
\* (next: the loader rewriting with the defaults every file it could not use)
FileAfterLoadRepair(f, writable) ==
    IF writable /\ ~(f.kind = "yaml" /\ f.doc.t = "obj")
    THEN FileOf(JO(DefaultSettingsMap)) ELSE f
FileAfterLoad(f, writable) ==
    IF f.kind = "missing" /\ writable THEN FileOf(JO(DefaultSettingsMap)) ELSE f

(***************************************************************************)
(* urllib.parse: quote_plus, urlencode, parse_qsl, urlsplit, urlunsplit    *)
(* (texts hold no userinfo, no bracketed host and no control characters).  *)
(***************************************************************************)
\* Characters quote() never encodes
Unreserved == LetterSet \cup DigitSet \cup {"_", ".", "-", "~"}
\* The other characters of the model's texts
Encodable == {"&", "=", "#", "%", "+", "/", "?", ":", "{", "}", "é"}
\* Their UTF-8 percent-encoding
PctCode(c) ==
    CASE c = "&" -> <<"%", "2", "6">>
      [] c = "=" -> <<"%", "3", "D">>
      [] c = "#" -> <<"%", "2", "3">>
      [] c = "%" -> <<"%", "2", "5">>
      [] c = "+" -> <<"%", "2", "B">>
      [] c = "/" -> <<"%", "2", "F">>
      [] c = "?" -> <<"%", "3", "F">>
      [] c = ":" -> <<"%", "3", "A">>
      [] c = "{" -> <<"%", "7", "B">>
      [] c = "}" -> <<"%", "7", "D">>
      [] c = "é" -> <<"%", "C", "3", "%", "A", "9">>

\* quote_plus of one character: unreserved characters kept, a space becomes
\* "+", the rest percent-encoded
QuoteChar(c) ==
    IF c \in Unreserved THEN <<c>> ELSE IF c = " " THEN <<"+">> ELSE PctCode(c)
RECURSIVE QuotePlus(_)
\* quote_plus(s)
QuotePlus(s) == IF s = <<>> THEN <<>> ELSE QuoteChar(s[1]) \o QuotePlus(Tail(s))

RECURSIVE Unquote(_)
Unquote2(s, c) == <<c>> \o Unquote(From(s, Len(PctCode(c)) + 1))
Unquote1(s, hit) ==
    IF hit = {} THEN <<s[1]>> \o Unquote(Tail(s))
    ELSE Unquote2(s, CHOOSE c \in hit : \A d \in hit : Len(PctCode(d)) <= Len(PctCode(c)))
\* unquote(s): every percent code is decoded; a "%" that starts no code
\* stays as it is
Unquote(s) ==
    IF s = <<>> THEN <<>>
    ELSE IF s[1] # "%" THEN <<s[1]>> \o Unquote(Tail(s))
    ELSE Unquote1(s, {c \in Encodable : StartsWith(s, PctCode(c))})

\* unquote(s.replace('+', ' '))
UnquotePlus(s) == Unquote([i \in DOMAIN s |-> IF s[i] = "+" THEN " " ELSE s[i]])

RECURSIVE SplitOn(_, _)
SplitOn1(s, sep, i) ==
    IF i = 0 THEN <<s>> ELSE <<Upto(s, i - 1)>> \o SplitOn(From(s, i + 1), sep)
\* str.split(sep) for a one-character sep
SplitOn(s, sep) == SplitOn1(s, sep, FindChar(s, {sep}, 1))

\* One name=value piece: split at the first "=", both sides decoded
ParsePair1(nv, i) ==
    IF i = 0 THEN <<UnquotePlus(nv), <<>> >>
    ELSE <<UnquotePlus(Upto(nv, i - 1)), UnquotePlus(From(nv, i + 1))>>
ParsePair(nv) == ParsePair1(nv, FindChar(nv, {"="}, 1))
RECURSIVE ParsePairs(_)
\* The pairs of the non-empty pieces
ParsePairs(pieces) ==
    IF pieces = <<>> THEN <<>>
    ELSE (IF pieces[1] = <<>> THEN <<>> ELSE <<ParsePair(pieces[1])>>)
         \o ParsePairs(Tail(pieces))

\* parse_qsl(qs, keep_blank_values=True): the (name, value) pairs, decoded
ParseQsl(qs) == IF qs = <<>> THEN <<>> ELSE ParsePairs(SplitOn(qs, "&"))

RECURSIVE UrlEncode(_)
\* urlencode(pairs, doseq=True) for text values: both sides quote_plus'ed
UrlEncode(pairs) ==
    IF pairs = <<>> THEN <<>>
    ELSE QuotePlus(pairs[1][1]) \o <<"=">> \o QuotePlus(pairs[1][2])
         \o (IF Len(pairs) > 1 THEN <<"&">> \o UrlEncode(Tail(pairs)) ELSE <<>>)

SchemeChars == LetterSet \cup DigitSet \cup {"+", "-", "."}
T_http == <<"h", "t", "t", "p">>
T_https == <<"h", "t", "t", "p", "s">>
T_httpPrefix == <<"h", "t", "t", "p", ":", "/", "/">>
T_httpsPrefix == <<"h", "t", "t", "p", "s", ":", "/", "/">>
\* uses_netloc, as far as the model's texts can name a scheme
UsesNetloc == {T_http, T_https, <<"f", "t", "p">>, <<"w", "s">>, <<"w", "s", "s">>}

\* The path and the query: split at the first "?"
UrlSplit7(scheme, netloc, r, fragment, q) ==
    [scheme |-> scheme, netloc |-> netloc,
     path |-> IF q = 0 THEN r ELSE Upto(r, q - 1),
     query |-> IF q = 0 THEN <<>> ELSE From(r, q + 1),
     fragment |-> fragment]
UrlSplit6(scheme, netloc, r, fragment) ==
    UrlSplit7(scheme, netloc, r, fragment, FindChar(r, {"?"}, 1))
\* The fragment: split at the first "#"
UrlSplit5(scheme, netloc, r, h) ==
    UrlSplit6(scheme, netloc, IF h = 0 THEN r ELSE Upto(r, h - 1),
              IF h = 0 THEN <<>> ELSE From(r, h + 1))
UrlSplit4(scheme, netloc, r) == UrlSplit5(scheme, netloc, r, FindChar(r, {"#"}, 1))
\* The netloc after "//": up to the first of "/", "?", "#"
UrlSplit3(scheme, r, hasNet, d) ==
    UrlSplit4(scheme,
              IF ~hasNet THEN <<>> ELSE IF d = 0 THEN From(r, 3) ELSE SubSeq(r, 3, d - 1),
              IF ~hasNet THEN r ELSE IF d = 0 THEN <<>> ELSE From(r, d))
UrlSplit2(scheme, r) ==
    UrlSplit3(scheme, r, StartsWith(r, <<"/", "/">>), FindChar(r, {"/", "?", "#"}, 3))
\* The scheme: the text before the first ":", when it starts with a letter
\* and holds scheme characters only
UrlSplit1(u, i, hasScheme) ==
    UrlSplit2(IF hasScheme THEN Lower(Upto(u, i - 1)) ELSE <<>>,
              IF hasScheme THEN From(u, i + 1) ELSE u)
UrlSplit0(u, i) ==
    UrlSplit1(u, i, i > 1 /\ IsAlpha(u[1]) /\ \A k \in 1..(i - 1) : u[k] \in SchemeChars)
\* urlsplit(u)
UrlSplit(u) == UrlSplit0(u, FindChar(u, {":"}, 1))

HostName1(netloc, i) == Lower(IF i = 0 THEN netloc ELSE Upto(netloc, i - 1))
\* SplitResult.hostname: the part of netloc before ":", lowercased; <<>> is None
HostName(netloc) == HostName1(netloc, FindChar(netloc, {":"}, 1))

NoPort == -1
MaxPort == 65535
\* The text after the ":" of a netloc
PortText1(netloc, i) == IF i = 0 THEN <<>> ELSE From(netloc, i + 1)
PortText(netloc) == PortText1(netloc, FindChar(netloc, {":"}, 1))
PortOfText(p) ==
    IF p = <<>> THEN Ok(NoPort)
    ELSE IF \E k \in DOMAIN p : ~IsDigit(p[k])
    THEN RaiseMsg("ValueError",
                  <<"Port could not be cast to integer value as '">> \o p \o <<"'">>)
    ELSE IF DigitsVal(p) > MaxPort
    THEN RaiseMsg("ValueError", <<"Port out of range 0-65535">>)
    ELSE Ok(DigitsVal(p))
\* SplitResult.port: None (NoPort) when netloc has no or an empty port,
\* ValueError when it is not decimal digits or is above 65535
Port(netloc) == PortOfText(PortText(netloc))

\* "//" netloc path, the path made absolute, when there is a netloc or the
\* scheme takes one
UnsplitNetloc(scheme, netloc, path) ==
    IF netloc # <<>>
       \/ (scheme # <<>> /\ scheme \in UsesNetloc /\ ~StartsWith(path, <<"/", "/">>))
    THEN <<"/", "/">> \o netloc
         \o (IF path # <<>> /\ path[1] # "/" THEN <<"/">> ELSE <<>>) \o path
    ELSE path
\* urlunsplit((scheme, netloc, path, query, fragment))
UrlUnsplit(scheme, netloc, path, query, fragment) ==
    (IF scheme # <<>> THEN scheme \o <<":">> ELSE <<>>)
    \o UnsplitNetloc(scheme, netloc, path)
    \o (IF query # <<>> THEN <<"?">> \o query ELSE <<>>)
    \o (IF fragment # <<>> THEN <<"#">> \o fragment ELSE <<>>)

(***************************************************************************)
(* query: the values derived from the effective settings (lines 317-339)   *)
(***************************************************************************)
\* server_path forced to start with "/", a bare "//" collapsed
NormalizePath1(p) == IF p = <<"/", "/">> THEN <<"/">> ELSE p
NormalizePath(raw) ==
    NormalizePath1(IF ~StartsWith(raw, <<"/">>) THEN <<"/">> \o LStripSet(raw, {"/"})
                   ELSE raw)

\* url_encode: a string is compared with 'true', anything else goes through bool()
EncodeFlag(j) == IF j.t = "str" THEN Lower(j.v) = T_true ELSE Truthy(j)

\* timeout, r being int(timeout_val): positive or 5; only ValueError is handled
TimeoutOf1(r) ==
    IF r.exc = "none" THEN Ok(IF r.val <= 0 THEN DefaultTimeout ELSE r.val)
    ELSE IF r.exc = "ValueError" THEN Ok(DefaultTimeout)
    ELSE r
TimeoutOf(j) == TimeoutOf1(IntOf(j))

\* custom_url_template: str(value or "").strip()
TemplateOf(j) == Strip(PyStr(IF Truthy(j) THEN j ELSE JS(<<>>)))

\* The locals of query, t being the timeout
DeriveUsed1(eff, t) ==
    IF t.exc # "none" THEN t
    ELSE Ok([server_addr |-> PyStr(eff.server_address),
             server_port_str |-> PyStr(eff.server_port),
             server_path |-> NormalizePath(PyStr(eff.server_path)),
             query_param_name |-> PyStr(eff.query_param_name),
             url_encode |-> EncodeFlag(eff.url_encode_query),
             timeout |-> t.val,
             custom_url_template |-> TemplateOf(eff.custom_url_template)])
DeriveUsed(eff) == DeriveUsed1(eff, TimeoutOf(eff.request_timeout))

(***************************************************************************)
(* query: URL construction (lines 347-397)                                 *)
(***************************************************************************)
P_encoded_query == <<"{", "e", "n", "c", "o", "d", "e", "d", "_", "q", "u", "e", "r", "y", "}">>
P_query == <<"{", "q", "u", "e", "r", "y", "}">>
P_query_param_name == <<"{", "q", "u", "e", "r", "y", "_", "p", "a", "r", "a", "m", "_",
                        "n", "a", "m", "e", "}">>

\* The three chained str.replace calls
SubstituteTemplate(template, p, name) ==
    ReplaceAll(ReplaceAll(ReplaceAll(template, P_encoded_query, QuotePlus(p)),
                          P_query, p),
               P_query_param_name, name)

\* "http://" is put in front of a text urlsplit finds no scheme in
EnsureScheme(u) == IF UrlSplit(u).scheme = <<>> THEN T_httpPrefix \o u ELSE u

\* The query parameter appended to a template without query placeholders:
\* quote_plus(param) or param, then urlencode of all the pairs
AppendQueryParam(parsed, name, p, encode) ==
    UrlUnsplit(parsed.scheme, parsed.netloc, parsed.path,
               UrlEncode(ParseQsl(parsed.query)
                         \o << <<name, IF encode THEN QuotePlus(p) ELSE p>> >>),
               parsed.fragment)

\* Whether the template holds {query} or {encoded_query}
HasQueryPlaceholder(template) ==
    Contains(template, P_encoded_query) \/ Contains(template, P_query)

BuildCustomUrl1(u, p, parsed) ==
    IF ~HasQueryPlaceholder(u.custom_url_template)
    THEN Ok(AppendQueryParam(parsed, u.query_param_name, p, u.url_encode))
    ELSE Ok(UrlUnsplit(parsed.scheme, parsed.netloc, parsed.path, parsed.query,
                       parsed.fragment))
\* The custom template branch
BuildCustomUrl(u, p) ==
    BuildCustomUrl1(u, p, UrlSplit(EnsureScheme(
        SubstituteTemplate(u.custom_url_template, p, u.query_param_name))))

\* final_netloc: the address's port when truthy, else server_port when non-empty
FinalNetloc(host, port, server_port_str) ==
    IF port # NoPort /\ port # 0 THEN host \o <<":">> \o IntText(port)
    ELSE IF server_port_str # <<>> THEN host \o <<":">> \o server_port_str
    ELSE host

\* effective_server_addr
EffectiveAddr(server_addr) ==
    IF UrlSplit(server_addr).scheme = <<>> /\ server_addr # <<>>
    THEN T_httpPrefix \o server_addr ELSE server_addr

BuildDefaultUrl2(u, p, parsed, host, port) ==
    IF host = <<>>
    THEN RaiseMsg("ValueError", <<"Invalid server_address '">> \o u.server_addr
                                \o <<"': no hostname.">>)
    ELSE IF port.exc # "none" THEN port
    ELSE Ok(UrlUnsplit(IF parsed.scheme # <<>> THEN parsed.scheme ELSE T_http,
                       FinalNetloc(host, port.val, u.server_port_str),
                       u.server_path,
                       u.query_param_name \o <<"=">>
                           \o (IF u.url_encode THEN QuotePlus(p) ELSE p),
                       <<>>))
BuildDefaultUrl1(u, p, parsed) ==
    BuildDefaultUrl2(u, p, parsed, HostName(parsed.netloc), Port(parsed.netloc))
\* The branch building the URL from server_address/port/path/query_param_name
BuildDefaultUrl(u, p) == BuildDefaultUrl1(u, p, UrlSplit(EffectiveAddr(u.server_addr)))

BuildUrl(u, p) ==
    IF u.custom_url_template # <<>> THEN BuildCustomUrl(u, p) ELSE BuildDefaultUrl(u, p)

(***************************************************************************)
(* The handler object and _resolve_icon_path_static.  A fixed message or   *)
(* name that is never taken apart is kept as one piece of a text.          *)
(***************************************************************************)
PluginDir == <<"<plugindir>">>
ResolvedDefaultIcon == <<"<plugindir>", "/", "i", "c", "o", "n", ".", "p", "n", "g">>
\* Icon files that exist under the plugin directory
IconFiles == {<<"a", ".", "p", "n", "g">>}

\* The handler's fields as __init__ leaves them (lines 72-75, 116)
DefaultIcon == <<"i", "c", "o", "n", ".", "p", "n", "g">>
Constructed ==
    [settings |-> EmptyObj, plugindir |-> PluginDir, icon |-> DefaultIcon,
     resolved_default_icon_path |-> ResolvedDefaultIcon]

\* The five side-effect callbacks
CallbackMethods == {<<"open_url">>, <<"shell_run">>, <<"copy_to_clipboard">>,
                    <<"change_query">>, <<"flow_show_msg">>}
\* Attributes of the handler that getattr finds callable
HandlerCallables ==
    CallbackMethods \cup
    {<<"query">>, <<"context_menu">>, <<"_get_settings_from_file">>,
     <<"_get_user_documents_path">>, <<"_get_default_ico_from_plugin_json_early">>,
     <<"_ensure_fallback_logger_initialized">>, <<"_resolve_icon_path_static">>,
     <<"__init__">>}

\* The icon of a normalized path: a web address as it is, a file under the
\* plugin directory by its full path, "" for a file that does not exist
ResolveIcon1(n) ==
    IF StartsWith(n, T_httpPrefix) \/ StartsWith(n, T_httpsPrefix) THEN Ok(n)
    ELSE IF StartsWith(n, <<"/">>) THEN Ok(<<>>)
    ELSE IF n \in IconFiles THEN Ok(PluginDir \o <<"/">> \o n)
    ELSE Ok(<<>>)
\* _resolve_icon_path_static(icon, plugindir, logger): "" for a falsy icon,
\* AttributeError from .replace on a truthy non-string
ResolveIcon(j) ==
    IF ~Truthy(j) THEN Ok(<<>>)
    ELSE IF j.t # "str" THEN Raise("AttributeError")
    ELSE ResolveIcon1(ReplaceAll(j.v, <<"\\">>, <<"/">>))

(***************************************************************************)
(* query: mapping of the response array (lines 406-428)                    *)
(***************************************************************************)
\* "parameters": a list as it is, None as [], anything else wrapped
NormalizeParams(p) ==
    IF p.t = "list" THEN p ELSE IF p.t # "null" THEN JL(<<p>>) ELSE JL(<<>>)

\* `method and hasattr(self, method) and callable(getattr(self, method))`:
\* hasattr raises TypeError for an attribute name that is not a string
MethodCallable(method) ==
    IF ~Truthy(method) THEN Ok(FALSE)
    ELSE IF method.t # "str" THEN Raise("TypeError")
    ELSE Ok(method.v \in HandlerCallables)

RpcPart2(method, params, c) ==
    IF c.exc # "none" THEN c
    ELSE IF c.val
    THEN Ok("JsonRPCAction" :> JO("method" :> method
                                  @@ "parameters" :> NormalizeParams(params)))
    ELSE Ok(<<>>)
RpcPart1(json_rpc) ==
    IF json_rpc.t # "obj" THEN Ok(<<>>)
    ELSE RpcPart2(Get(json_rpc, "method", JNull), Get(json_rpc, "parameters", JL(<<>>)),
                  MethodCallable(Get(json_rpc, "method", JNull)))
\* The JsonRPCAction part of an entry: a function with the key or without
RpcPart(item) == RpcPart1(Get(item, "JsonRPCAction", JNull))

ContextPart2(plugin_context_data) ==
    IF plugin_context_data.t # "null" THEN "ContextData" :> plugin_context_data ELSE <<>>
\* The wrapper built for every list, the empty one included
ContextPartAnyList(menu, data) ==
    ContextPart2(IF menu.t = "list"
                 THEN JO("original_data" :> data @@ "defined_menu_items" :> menu)
                 ELSE data)
ContextPart1(menu, data) ==
    ContextPart2(IF Truthy(menu) /\ menu.t = "list"
                 THEN JO("original_data" :> data @@ "defined_menu_items" :> menu)
                 ELSE data)
\* plugin_context_data: the wrapper when ContextMenuItems is a non-empty
\* list, else ContextData; no key when that is None
ContextPart(item) ==
    ContextPart1(Get(item, "ContextMenuItems", JNull), Get(item, "ContextData", JNull))

AutoCompletePart(item) ==
    IF Truthy(Get(item, "AutoCompleteText", JNull))
    THEN "AutoCompleteText" :> item.v["AutoCompleteText"] ELSE <<>>

\* Whether the loop maps the element: an object with a truthy Title
Qualifies(item) == item.t = "obj" /\ Truthy(Get(item, "Title", JNull))

\* The entry of a qualifying element, or the first exception its evaluation
\* raises: the icon's, then the Score's, then the callback's
MapItem1(item, icon, score, rpc) ==
    IF icon.exc # "none" THEN icon
    ELSE IF score.exc # "none" THEN score
    ELSE IF rpc.exc # "none" THEN rpc
    ELSE Ok(<< ("Title" :> item.v["Title"]
                @@ "SubTitle" :> Get(item, "SubTitle", JS(<<>>))
                @@ "IcoPath" :> JS(IF icon.val # <<>> THEN icon.val
                                   ELSE ResolvedDefaultIcon)
                @@ "Score" :> JI(score.val)
                @@ AutoCompletePart(item) @@ ContextPart(item) @@ rpc.val) >>)
\* One iteration of the loop: nothing for an element that does not qualify
MapItem(item) ==
    IF ~Qualifies(item) THEN Ok(<<>>)
    ELSE MapItem1(item, ResolveIcon(Get(item, "IcoPath", JNull)),
                  IntOf(Get(item, "Score", JI(0))), RpcPart(item))

RECURSIVE MapItems(_, _)
\* The loop putting each entry in front of the list
MapItemsPrepend(items, acc, m) ==
    IF m.exc # "none" THEN m ELSE MapItems(Tail(items), m.val \o acc)
\* The loop skipping an element whose mapping raises and keeping the rest
MapItemsSkipFailing(items, acc, m) ==
    IF m.exc # "none" THEN MapItems(Tail(items), acc)
    ELSE MapItems(Tail(items), acc \o m.val)
MapItems1(items, acc, m) ==
    IF m.exc # "none" THEN m ELSE MapItems(Tail(items), acc \o m.val)
\* The loop over server_response_data, appending to results
MapItems(items, acc) ==
    IF items = <<>> THEN Ok(acc) ELSE MapItems1(items, acc, MapItem(items[1]))

(***************************************************************************)
(* query: the except clauses and the closing lines (lines 430-451)         *)
(***************************************************************************)
\* The classes an exception is an instance of
ExcBases(e) ==
    CASE e = "ConnectTimeout" -> {"Timeout", "ConnectionError", "RequestException", "Exception"}
      [] e = "ReadTimeout" -> {"Timeout", "RequestException", "Exception"}
      [] e = "ConnectionError" -> {"ConnectionError", "RequestException", "Exception"}
      [] e = "HTTPError" -> {"HTTPError", "RequestException", "Exception"}
      \* requests.exceptions.JSONDecodeError (requests >= 2.27)
      [] e = "RequestsJSONDecodeError" ->
            {"RequestException", "JSONDecodeError", "ValueError", "Exception"}
      \* json.JSONDecodeError (older requests)
      [] e = "JSONDecodeError" -> {"JSONDecodeError", "ValueError", "Exception"}
      [] OTHER -> {e, "Exception"}

\* type(e).__name__
TypeName(e) == IF e = "RequestsJSONDecodeError" THEN "JSONDecodeError" ELSE e

TimeoutEntry(u) ==
    "Title" :> JS(<<"Error: Request Timed Out">>)
    @@ "SubTitle" :> JS(<<"Server at ">> \o u \o <<" timed out.">>)
    @@ "IcoPath" :> JS(ResolvedDefaultIcon)
NetworkEntry(u, e) ==
    "Title" :> JS(<<"Error: Network Request Failed">>)
    @@ "SubTitle" :> JS(<<"Could not connect to '">> \o u \o <<"'. ">> \o <<TypeName(e.exc)>>)
    @@ "IcoPath" :> JS(ResolvedDefaultIcon)
DataErrorEntry(e) ==
    "Title" :> JS(<<"Error: ", TypeName(e.exc)>>)
    @@ "SubTitle" :> JS(e.msg)
    @@ "IcoPath" :> JS(ResolvedDefaultIcon)
PluginErrorEntry ==
    "Title" :> JS(<<"Error: Plugin Error">>)
    @@ "SubTitle" :> JS(<<"Unexpected. Check logs.">>)
    @@ "IcoPath" :> JS(ResolvedDefaultIcon)
NoResultsEntry(p) ==
    "Title" :> JS(<<"No results">>)
    @@ "SubTitle" :> JS(<<"Query '">> \o p \o <<"' from server.">>)
    @@ "IcoPath" :> JS(ResolvedDefaultIcon)
ReadyEntry ==
    "Title" :> JS(<<"HTTP Query Forwarder Ready">>)
    @@ "SubTitle" :> JS(<<"Enter query. Config: ...\\Documents\\httpflow\\settings.yaml">>)
    @@ "IcoPath" :> JS(ResolvedDefaultIcon)

\* The except clauses without the closing `except Exception`
HandleExceptionNoCatchAll(e, u) ==
    IF "Timeout" \in ExcBases(e.exc) THEN Ok(<<TimeoutEntry(u)>>)
    ELSE IF "RequestException" \in ExcBases(e.exc) THEN Ok(<<NetworkEntry(u, e)>>)
    ELSE IF {"JSONDecodeError", "ValueError"} \cap ExcBases(e.exc) # {}
    THEN Ok(<<DataErrorEntry(e)>>)
    ELSE e
\* The except clauses with the RequestException clause in front of the
\* Timeout clause
HandleExceptionNetworkFirst(e, u) ==
    IF "RequestException" \in ExcBases(e.exc) THEN Ok(<<NetworkEntry(u, e)>>)
    ELSE IF "Timeout" \in ExcBases(e.exc) THEN Ok(<<TimeoutEntry(u)>>)
    ELSE IF {"JSONDecodeError", "ValueError"} \cap ExcBases(e.exc) # {}
    THEN Ok(<<DataErrorEntry(e)>>)
    ELSE IF "Exception" \in ExcBases(e.exc) THEN Ok(<<PluginErrorEntry>>)
    ELSE e
\* The except clauses in their order: the results that replace the list, or
\* the exception when no clause matches
HandleException(e, u) ==
    IF "Timeout" \in ExcBases(e.exc) THEN Ok(<<TimeoutEntry(u)>>)
    ELSE IF "RequestException" \in ExcBases(e.exc) THEN Ok(<<NetworkEntry(u, e)>>)
    ELSE IF {"JSONDecodeError", "ValueError"} \cap ExcBases(e.exc) # {}
    THEN Ok(<<DataErrorEntry(e)>>)
    ELSE IF "Exception" \in ExcBases(e.exc) THEN Ok(<<PluginErrorEntry>>)
    ELSE e

\* Lines 444-448: an empty list gets the no-results or the ready entry
Finish(res, p) ==
    IF res = <<>> /\ Strip(p) # <<>> THEN <<NoResultsEntry(p)>>
    ELSE IF res = <<>> /\ Strip(p) = <<>> THEN <<ReadyEntry>>
    ELSE res

\* What the try block makes of the server's answer: the exception of
\* requests.get / raise_for_status / json(), the ValueError for a body that
\* is not a list, or the mapped entries
ProcessOutcome(o, u) ==
    IF o.kind = "exc" THEN RaiseMsg(o.exc, <<"<message of ", o.exc, ">">>)
    ELSE IF o.json.t # "list"
    THEN RaiseMsg("ValueError", <<"Server response from ">> \o u \o <<" is not a JSON list.">>)
    ELSE MapItems(o.json.v, <<>>)

Conclude1(h, p) == IF h.exc = "none" THEN Ok(Finish(h.val, p)) ELSE h
\* The results after the try/except and the closing lines
Conclude(r, u, p) == Conclude1(IF r.exc = "none" THEN r ELSE HandleException(r, u), p)

(***************************************************************************)
(* The state machine: the host invokes query, the server answers the GET.  *)
(***************************************************************************)
NotYet == [none |-> TRUE]
\* Neither context_menu nor a callback has been invoked
NoHostCalls ==
    /\ menu_data = NotYet
    /\ menu_pc = "idle"
    /\ menu_results = <<>>
    /\ call = NotYet
UrlNotConstructed == <<"URL not constructed">>
ExcOutcome(e) == [kind |-> "exc", exc |-> e, json |-> JNull]
JsonOutcome(j) == [kind |-> "json", exc |-> "none", json |-> j]

\* query returns c's list, or c's exception leaves it
Return(c) ==
    /\ pc' = IF c.exc = "none" THEN "done" ELSE "raised"
    /\ results' = IF c.exc = "none" THEN c.val ELSE <<>>

\* The try block issuing the GET although the URL's construction raised
Query2GetAnyway(q, b) ==
    /\ url' = IF b.exc = "none" THEN b.val ELSE UrlNotConstructed
    /\ gets' = 1
    /\ IF b.exc = "none"
       THEN pc' = "waiting" /\ results' = <<>>
       ELSE Return(Conclude(b, UrlNotConstructed, q))
\* The try block up to the GET, b being the constructed URL or the
\* exception of its construction
Query2(q, b) ==
    IF b.exc = "none"
    THEN /\ pc' = "waiting"
         /\ url' = b.val
         /\ gets' = 1
         /\ results' = <<>>
    ELSE /\ url' = UrlNotConstructed
         /\ gets' = 0
         /\ Return(Conclude(b, UrlNotConstructed, q))
\* Lines 317-339, u being the derived values or the exception of int()
Query1(q, u) ==
    IF u.exc # "none"
    THEN /\ used' = NotYet
         /\ url' = UrlNotConstructed
         /\ gets' = 0
         /\ Return(u)
    ELSE /\ used' = u.val
         /\ Query2(q, BuildUrl(u.val, q))
\* Line 310, eff being the effective settings
Query0(q, eff) ==
    /\ settings' = eff
    /\ Query1(q, DeriveUsed(eff))
\* query(q) up to the GET, or to its return when no GET is issued
Query(q, writable) ==
    /\ pc # "waiting"
    /\ file' = FileAfterLoad(file, writable)
    /\ loaded' = file
    /\ param' = q
    /\ response' = NotYet
    /\ Query0(q, EffectiveSettings(file))
    /\ UNCHANGED hostVars

\* The GET returns or raises, and query runs to its return
Respond(o) ==
    /\ pc = "waiting"
    /\ Return(Conclude(ProcessOutcome(o, url), url, param))
    /\ response' = o
    /\ UNCHANGED <<file, param, loaded, settings, used, url, gets>>
    /\ UNCHANGED hostVars

\* The user edits the settings file between invocations
EditSettingsFile(f) ==
    /\ pc # "waiting"
    /\ file # f
    /\ file' = f
    /\ UNCHANGED <<pc, param, loaded, settings, used, url, gets, response, results>>
    /\ UNCHANGED hostVars

(***************************************************************************)
(* context_menu (lines 453-484): no try block surrounds its body.          *)
(***************************************************************************)
RECURSIVE KeySeq(_)
KeySeq1(S, k) == <<JS(<<k>>)>> \o KeySeq(S \ {k})
\* The keys of an object, each a text
KeySeq(S) == IF S = {} THEN <<>> ELSE KeySeq1(S, CHOOSE k \in S : TRUE)

\* What `for item_def in x` runs over: the elements of a list, the
\* characters of a text, the keys of an object; TypeError for a value that
\* is not iterable (None, a number, a bool)
IterateOver(x) ==
    CASE x.t = "list" -> Ok(x.v)
      [] x.t = "str" -> Ok([i \in DOMAIN x.v |-> JS(<<x.v[i]>>)])
      [] x.t = "obj" -> Ok(KeySeq(DOMAIN x.v))
      [] OTHER -> Raise("TypeError")

\* The menu entry of a qualifying item, or the first exception its
\* evaluation raises: the icon's, then the callback's
MenuItem1(item_def, icon, rpc) ==
    IF icon.exc # "none" THEN icon
    ELSE IF rpc.exc # "none" THEN rpc
    ELSE Ok(<< ("Title" :> item_def.v["Title"]
                @@ "SubTitle" :> Get(item_def, "SubTitle", JS(<<>>))
                @@ "IcoPath" :> JS(IF icon.val # <<>> THEN icon.val
                                   ELSE ResolvedDefaultIcon)
                @@ rpc.val) >>)
\* One iteration of the loop: nothing for an item that is not an object
\* with a truthy Title
MenuItem(item_def) ==
    IF ~Qualifies(item_def) THEN Ok(<<>>)
    ELSE MenuItem1(item_def, ResolveIcon(Get(item_def, "IcoPath", JNull)), RpcPart(item_def))

RECURSIVE MenuItems(_, _)
MenuItems1(items, acc, m) ==
    IF m.exc # "none" THEN m ELSE MenuItems(Tail(items), acc \o m.val)
\* The loop over defined_menu_items, appending to menu_results
MenuItems(items, acc) ==
    IF items = <<>> THEN Ok(acc) ELSE MenuItems1(items, acc, MenuItem(items[1]))

T_NoActions == <<"No context actions defined by server">>
T_NoSpecificActions == <<"No specific context actions (original data present)">>
\* default_context_title
DefaultContextTitle(d) ==
    IF d.t = "obj" /\ "original_data" \in DOMAIN d.v THEN T_NoSpecificActions
    ELSE T_NoActions
\* The entry appended to an empty menu
PlaceholderEntry(d) ==
    "Title" :> JS(DefaultContextTitle(d)) @@ "IcoPath" :> JS(ResolvedDefaultIcon)
\* Lines 476-481
MenuFinish(res, d) == IF res = <<>> THEN <<PlaceholderEntry(d)>> ELSE res

ContextMenuResult2(m, d) == IF m.exc # "none" THEN m ELSE Ok(MenuFinish(m.val, d))
ContextMenuResult1(it, d) ==
    IF it.exc # "none" THEN it ELSE ContextMenuResult2(MenuItems(it.val, <<>>), d)
\* What context_menu(d) returns, or the exception that leaves it
ContextMenuResult(d) ==
    IF d.t = "obj" /\ "defined_menu_items" \in DOMAIN d.v
    THEN ContextMenuResult1(IterateOver(d.v["defined_menu_items"]), d)
    ELSE Ok(MenuFinish(<<>>, d))

ContextMenu1(r) ==
    /\ menu_pc' = IF r.exc = "none" THEN "done" ELSE "raised"
    /\ menu_results' = IF r.exc = "none" THEN r.val ELSE <<>>
\* context_menu(d)
ContextMenu(d) ==
    /\ menu_data' = d
    /\ ContextMenu1(ContextMenuResult(d))
    /\ UNCHANGED <<file, pc, param, loaded, settings, used, url, gets, response, results,
                   call, self>>

\* The payload the host hands to context_menu for an entry: its ContextData,
\* None when the entry has none
PayloadOf(entry) == IF "ContextData" \in DOMAIN entry THEN entry["ContextData"] ELSE JNull

(***************************************************************************)
(* The callbacks (lines 486-607).  Each makes one host-facing call in its  *)
(* try block (webbrowser.open, print of a JSON-RPC instruction,            *)
(* FlowLauncherAPI.change_query); env.primary tells whether that call      *)
(* succeeds, env.fallback whether the call made by the except handler      *)
(* does.  Logging does not raise: logging handlers swallow their errors.   *)
(***************************************************************************)
\* A call the host or the browser receives
Effect(method, parameters) == [method |-> method, parameters |-> parameters]
ShowMsg(title, sub_title) ==
    Effect("Flow.Launcher.ShowMsg", <<JS(title), JS(sub_title), JS(ResolvedDefaultIcon)>>)

\* The callback ran to its end (no return statement: None), or an exception
\* left it
Returned(effects) == [outcome |-> "returned", value |-> JNull, effects |-> effects]
Propagated == [outcome |-> "raised", value |-> JNull, effects |-> <<>>]

\* try: primary / except Exception: fallback, the fallback unprotected
TryWithFallback(primary, fallback, env) ==
    IF env.primary THEN Returned(<<primary>>)
    ELSE IF env.fallback THEN Returned(<<fallback>>)
    ELSE Propagated
\* try: primary / except Exception: logging only
TryWithLogging(primary, env) ==
    IF env.primary THEN Returned(<<primary>>) ELSE Returned(<<>>)

\* `str(x).lower() == 'true' if isinstance(x, str) else bool(x)`
FlagOf(x) == IF x.t = "str" THEN Lower(x.v) = T_true ELSE Truthy(x)
\* `command[0] if isinstance(command, list) and command else str(command)`
CmdStr(command) ==
    IF command.t = "list" /\ command.v # <<>> THEN command.v[1] ELSE JS(PyStr(command))

OpenUrlResult(u, env) ==
    TryWithFallback(Effect("webbrowser.open", <<u>>),
                    ShowMsg(<<"Error Opening URL">>,
                            <<"Could not open: ">> \o PyStr(u) \o <<". Error: <type>">>),
                    env)
ShellRunResult(command, env) ==
    TryWithFallback(Effect("Flow.Launcher.ShellRun", <<CmdStr(command)>>),
                    ShowMsg(<<"Shell Command Error">>,
                            <<"Plugin failed to request shell_run. Error: <type>. Check logs.">>),
                    env)
CopyToClipboardResult(text, directCopy, showDefaultNotification, env) ==
    TryWithFallback(Effect("Flow.Launcher.CopyToClipboard",
                           <<JS(PyStr(text)), JB(FlagOf(directCopy)),
                             JB(FlagOf(showDefaultNotification))>>),
                    ShowMsg(<<"Clipboard Error">>,
                            <<"Plugin failed to request copy. Error: <type>">>),
                    env)
ChangeQueryResult(new_query, requery, env) ==
    TryWithFallback(Effect("Flow.Launcher.ChangeQuery",
                           <<JS(PyStr(new_query)), JB(FlagOf(requery))>>),
                    ShowMsg(<<"Change Query Error">>,
                            <<"Failed to change query. Error: <type>">>),
                    env)
FlowShowMsgResult1(title, sub_title, icon, env) ==
    IF icon.exc # "none" THEN Returned(<<>>)
    ELSE TryWithLogging(Effect("Flow.Launcher.ShowMsg",
                               <<JS(PyStr(title)), JS(PyStr(sub_title)),
                                 JS(IF icon.val # <<>> THEN icon.val
                                    ELSE ResolvedDefaultIcon)>>),
                        env)
FlowShowMsgResult(title, sub_title, ico_path_param, env) ==
    FlowShowMsgResult1(title, sub_title, ResolveIcon(ico_path_param), env)

\* The record of an invocation of the callback named method with args
CallOf(method, args, r) ==
    [method |-> method, args |-> args, outcome |-> r.outcome, value |-> r.value,
     effects |-> r.effects]
\* What a callback leaves alone
calleeVars == <<file, pc, param, loaded, settings, used, url, gets, response, results,
                menu_data, menu_pc, menu_results, self>>

open_url(u, env) ==
    /\ call' = CallOf("open_url", <<u>>, OpenUrlResult(u, env))
    /\ UNCHANGED calleeVars
shell_run(command, env) ==
    /\ call' = CallOf("shell_run", <<command>>, ShellRunResult(command, env))
    /\ UNCHANGED calleeVars
copy_to_clipboard(text, directCopy, showDefaultNotification, env) ==
    /\ call' = CallOf("copy_to_clipboard", <<text, directCopy, showDefaultNotification>>,
                      CopyToClipboardResult(text, directCopy, showDefaultNotification, env))
    /\ UNCHANGED calleeVars
change_query(new_query, requery, env) ==
    /\ call' = CallOf("change_query", <<new_query, requery>>,
                      ChangeQueryResult(new_query, requery, env))
    /\ UNCHANGED calleeVars
flow_show_msg(title, sub_title, ico_path_param, env) ==
    /\ call' = CallOf("flow_show_msg", <<title, sub_title, ico_path_param>>,
                      FlowShowMsgResult(title, sub_title, ico_path_param, env))
    /\ UNCHANGED calleeVars

(***************************************************************************)
(* The inputs the specifications draw from.                                *)
(***************************************************************************)
\* All texts over an alphabet up to a length
TextsUpTo(alphabet, n) == UNION {[1..k -> alphabet] : k \in 0..n}
\* All sequences of elements up to a length
ArraysUpTo(elements, n) == UNION {[1..k -> elements] : k \in 0..n}

T_h == <<"h", "t", "t", "p", ":", "/", "/", "h">>
T_xy == <<"h", "t", "t", "p", ":", "/", "/", "x", "/", "y">>
T_abc == <<"a", "b", "c">>

\* Array elements: titled, untitled, not an object, with a Score that cannot
\* be coerced, with a callback whose method is not a string
El_A == JO("Title" :> JS(<<"A">>))
El_NoTitle == JO("NoTitle" :> JB(TRUE))
El_B5 == JO("Title" :> JS(<<"B">>) @@ "Score" :> JI(5))
El_Number == JI(7)
El_ScoreAbc == JO("Title" :> JS(<<"D">>) @@ "Score" :> JS(T_abc))
El_ScoreNull == JO("Title" :> JS(<<"E">>) @@ "Score" :> JNull)
El_Method5 == JO("Title" :> JS(<<"F">>) @@ "JsonRPCAction" :> JO("method" :> JI(5)))
BaseElements == {El_A, El_NoTitle, El_ScoreAbc, El_Method5}

ExcClasses == {"ConnectTimeout", "ReadTimeout", "ConnectionError", "HTTPError",
               "RequestsJSONDecodeError", "JSONDecodeError"}
NonArrayBodies == {JO("Title" :> JS(<<"A">>)), JS(<<"A">>), JI(7), JNull, JB(TRUE)}
BaseOutcomes ==
    {ExcOutcome(e) : e \in ExcClasses}
    \cup {JsonOutcome(j) : j \in NonArrayBodies}
    \cup {JsonOutcome(JL(a)) : a \in ArraysUpTo(BaseElements, MaxBaseArrayLen)}

\* Settings files of every kind: missing, unreadable, unparsable, not a
\* mapping, a mapping with malformed values, with an address without a host,
\* with a template
BaseFiles ==
    {FileMissing, FileUnparsable, FileUnreadable,
     FileOf(JNull), FileOf(JL(<<JI(1)>>)), FileOf(JS(<<"x">>)), FileOf(EmptyObj),
     FileOf(JO([server_address |-> JI(5), server_port |-> JI(81), server_path |-> JNull,
                query_param_name |-> JL(<<>>), url_encode_query |-> JS(<<"m", "a", "y", "b", "e">>),
                request_timeout |-> JS(T_abc), custom_url_template |-> JI(0)])),
     FileOf(JO("request_timeout" :> JNull @@ "server_address" :> JS(T_h))),
     FileOf(JO("request_timeout" :> JL(<<JI(1)>>))),
     FileOf(JO("server_address" :> JS(<<>>))),
     FileOf(JO("server_address" :> JS(T_h \o <<":", "x">>))),
     FileOf(JO("custom_url_template" :> JS(T_xy)))}
BaseQueries == {<<>>, <<"a">>, <<" ">>}

(***************************************************************************)
(* Spec: every kind of settings file, query text and server outcome.       *)
(***************************************************************************)
Init ==
    /\ file \in BaseFiles
    /\ pc = "idle"
    /\ param = <<>>
    /\ loaded = NotYet
    /\ settings = NotYet
    /\ used = NotYet
    /\ url = UrlNotConstructed
    /\ gets = 0
    /\ response = NotYet
    /\ results = <<>>
    /\ NoHostCalls
    /\ self = Constructed

QueryBase == \E q \in BaseQueries, w \in BOOLEAN : Query(q, w)
RespondBase == pc = "waiting" /\ \E o \in BaseOutcomes : Respond(o)
EditBase == \E f \in BaseFiles : EditSettingsFile(f)

Next == QueryBase \/ RespondBase \/ EditBase

Spec == Init /\ [][Next]_vars

\* The invocation has ended: query returned or an exception left it
Ended == pc \in {"done", "raised"}
\* The invocation failed: no URL was constructed, or the GET, the decoding
\* of the body or the mapping of the array raised
Failed == Ended /\ (gets = 0 \/ ProcessOutcome(response, url).exc # "none")

\* C1: query never raises outward; whatever the settings file, the query
\* text and the server's outcome, it returns a list of at least one entry
\* and every entry carries a Title.
C1_QueryNeverRaises ==
    /\ pc # "raised"
    /\ pc = "done" => /\ Len(results) >= 1
                      /\ \A i \in DOMAIN results : "Title" \in DOMAIN results[i]

\* C1's case: an exception no specific clause names (TypeError from a
\* callback method that is the number 5) ended in a titled entry.
C1_Witness ==
    /\ pc = "done"
    /\ gets = 1
    /\ ProcessOutcome(response, url).exc = "TypeError"
    /\ loaded.kind = "unparsable"
    /\ Len(results) = 1

\* C10: an invocation issues at most one GET: exactly one when a URL was
\* constructed, none when its construction failed, and none is added once
\* the GET is answered; every failure ends with a list of exactly one entry.
C10_OneGetOneEntry ==
    /\ gets \in {0, 1}
    /\ pc = "waiting" => gets = 1
    /\ Ended => (gets = 1 <=> url # UrlNotConstructed)
    /\ Failed => pc = "done" /\ Len(results) = 1

\* C10's case: an address without a host ended the invocation without a GET
\* and with one entry.
C10_Witness ==
    /\ pc = "done"
    /\ gets = 0
    /\ used.server_addr = <<>>
    /\ url = UrlNotConstructed
    /\ Len(results) = 1
    /\ results[1]["Title"] = JS(<<"Error: ", "ValueError">>)

\* The GET was answered and query returned
Answered == pc = "done" /\ response # NotYet
\* requests.get raised a connect or a read timeout
TimedOut ==
    Answered /\ response.kind = "exc" /\ response.exc \in {"ConnectTimeout", "ReadTimeout"}

\* C11: when the GET times out (connect or read timeout), query returns
\* exactly one entry, titled "Error: Request Timed Out", whose SubTitle
\* contains the requested URL; it is the timeout entry and not the
\* network-failure entry, although a connect timeout is a ConnectionError too.
C11_TimeoutEntry ==
    TimedOut => /\ Len(results) = 1
                /\ results[1]["Title"] = JS(<<"Error: Request Timed Out">>)
                /\ results[1]["Title"] # NetworkEntry(url, response)["Title"]
                /\ Contains(results[1]["SubTitle"].v, url)

\* C11's case: a connect timeout, which is both a Timeout and a
\* ConnectionError, on a URL built from a custom template.
C11_Witness ==
    /\ TimedOut
    /\ response.exc = "ConnectTimeout"
    /\ "ConnectionError" \in ExcBases(response.exc)
    /\ StartsWith(url, T_xy)
    /\ results = <<TimeoutEntry(url)>>

\* The body could not be decoded as JSON (json() raised the decode error of
\* the installed requests), or it decoded to a value that is not a list
NotAJsonArray ==
    /\ Answered
    /\ \/ /\ response.kind = "exc"
          /\ response.exc \in {"RequestsJSONDecodeError", "JSONDecodeError"}
       \/ response.kind = "json" /\ response.json.t # "list"

\* C12: when the body is not JSON, or is JSON but not an array, query
\* returns exactly one entry, the typed data-error entry: its Title names the
\* error type and its SubTitle carries the parser's or validator's message;
\* it is neither the network-failure entry nor the generic plugin-error entry.
C12_TypedDataError ==
    NotAJsonArray =>
        /\ Len(results) = 1
        /\ results[1]["Title"] \in {JS(<<"Error: ", "JSONDecodeError">>),
                                    JS(<<"Error: ", "ValueError">>)}
        /\ results[1]["SubTitle"] = JS(ProcessOutcome(response, url).msg)
        /\ results[1]["Title"] # NetworkEntry(url, response)["Title"]
        /\ results[1]["Title"] # PluginErrorEntry["Title"]

\* The server returned an array from which no entry was mapped
NothingMapped ==
    /\ Answered
    /\ response.kind = "json"
    /\ response.json.t = "list"
    /\ MapItems(response.json.v, <<>>) = Ok(<<>>)

\* C13: when the server returns an array from which no entry survives,
\* query returns exactly one entry: for a query text of one or more
\* characters the no-results entry naming that text, for the empty query text
\* the ready entry; the ready entry is never returned for a non-empty text.
C13_NoResultsOrReady ==
    NothingMapped =>
        /\ Len(results) = 1
        /\ param # <<>> => /\ results[1]["Title"] = JS(<<"No results">>)
                           /\ Contains(results[1]["SubTitle"].v, param)
                           /\ results[1] # ReadyEntry
        /\ param = <<>> => results[1] = ReadyEntry

(***************************************************************************)
(* SpecSettings: settings files that set up to MaxKeysSet of the           *)
(* recognized keys, each to a valid, malformed, null or wrongly typed      *)
(* value.                                                                  *)
(***************************************************************************)
T_81 == <<"8", "1">>
\* The values a file gives a key
ValuesFor(key) ==
    CASE key = "request_timeout" ->
             {JI(9), JS(<<"7">>), JS(<<"0">>), JS(<<"-", "3">>), JS(T_abc), JI(0), JI(-3),
              JNull, JL(<<JI(1)>>), JF(27), JB(TRUE)}
      [] key = "url_encode_query" ->
             {JB(FALSE), JS(<<"F", "a", "l", "s", "e">>), JS(<<"n", "o">>), JI(0), JNull}
      [] key = "server_address" -> {JS(T_h), JI(5), JNull}
      [] key = "server_port" -> {JS(T_81), JI(81), JNull}
      [] key = "server_path" -> {JS(<<"/", "p">>), JB(TRUE), JNull}
      [] key = "query_param_name" -> {JS(<<"k">>), JL(<<>>), JNull}
      [] key = "custom_url_template" -> {JS(T_xy), JI(0), JNull}

RECURSIVE DocsFrom(_, _)
\* The mappings that set at most k of the keys from the i-th on
DocsFrom(i, k) ==
    IF i > Len(SettingsKeys) \/ k = 0 THEN {<<>>}
    ELSE DocsFrom(i + 1, k)
         \cup {(SettingsKeys[i] :> v) @@ d :
                   v \in ValuesFor(SettingsKeys[i]), d \in DocsFrom(i + 1, k - 1)}

SettingsFiles ==
    {FileMissing, FileUnparsable, FileOf(JNull)}
    \cup {FileOf(JO(d)) : d \in DocsFrom(1, MaxKeysSet)}
SettingsOutcomes == {ExcOutcome("ReadTimeout"), JsonOutcome(JL(<<El_A>>))}

InitSettings ==
    /\ file \in SettingsFiles
    /\ pc = "idle"
    /\ param = <<>>
    /\ loaded = NotYet
    /\ settings = NotYet
    /\ used = NotYet
    /\ url = UrlNotConstructed
    /\ gets = 0
    /\ response = NotYet
    /\ results = <<>>
    /\ NoHostCalls
    /\ self = Constructed

QuerySettings == \E w \in BOOLEAN : Query(<<"a">>, w)
RespondSettings == pc = "waiting" /\ \E o \in SettingsOutcomes : Respond(o)

NextSettings == QuerySettings \/ RespondSettings

SpecSettings == InitSettings /\ [][NextSettings]_vars

\* query has loaded the settings and derived its values
Loaded == pc \in {"waiting", "done"}

\* A value of the documented type of its key: a text for the address, port,
\* path, parameter name and template; a boolean or the text true/false in
\* any case for the flag; for the timeout a value that parses as an integer
\* and is positive
WellFormed(key, v) ==
    CASE key = "request_timeout" -> IntOf(v).exc = "none" /\ IntOf(v).val > 0
      [] key = "url_encode_query" ->
             v.t = "bool" \/ (v.t = "str" /\ Lower(v.v) \in {T_true, T_false})
      [] OTHER -> v.t = "str"

\* The file gives the key no well-formed value
Unusable(f, key) ==
    \/ f.kind # "yaml"
    \/ f.doc.t # "obj"
    \/ key \notin DOMAIN f.doc.v
    \/ ~WellFormed(key, f.doc.v[key])

\* The value query uses for a key, u being its derived values
UsedOf(u, key) ==
    CASE key = "server_address" -> u.server_addr
      [] key = "server_port" -> u.server_port_str
      [] key = "server_path" -> u.server_path
      [] key = "query_param_name" -> u.query_param_name
      [] key = "url_encode_query" -> u.url_encode
      [] key = "request_timeout" -> u.timeout
      [] key = "custom_url_template" -> u.custom_url_template

\* C4: for every settings file and every recognized key that is absent or
\* whose value is malformed or of the wrong type, the effective value and
\* the value query uses are the documented default; a request_timeout that
\* is non-positive or does not parse as an integer gives a timeout of 5.
C4_MalformedKeyDefaults ==
    Loaded =>
        \A key \in Range(SettingsKeys) :
            Unusable(loaded, key) =>
                /\ settings[key] = DefaultSettingsMap[key]
                /\ UsedOf(used, key) = UsedOf(DeriveUsed(DefaultSettingsMap).val, key)
                /\ key = "request_timeout" => used.timeout = 5

\* C4's case: a file with request_timeout "-3" and a valid server_port was
\* loaded; the timeout is 5 and the port is the file's.
C4_Witness ==
    /\ pc = "waiting"
    /\ loaded = FileOf(JO("server_port" :> JS(T_81)
                          @@ "request_timeout" :> JS(<<"-", "3">>)))
    /\ used.timeout = 5
    /\ used.server_port_str = T_81

\* The file f with only the keys S
Restricted(f, S) == FileOf(JO([k \in S |-> f.doc.v[k]]))

\* C5: settings keys default independently: the effective value of a key is
\* the same for every file that agrees on the key, here the loaded file and
\* each file that keeps the key and drops some of the others.
C5_KeysDefaultIndependently ==
    (Loaded /\ loaded.kind = "yaml" /\ loaded.doc.t = "obj") =>
        \A key \in Range(SettingsKeys) :
            \A S \in SUBSET (DOMAIN loaded.doc.v) :
                (key \in DOMAIN loaded.doc.v => key \in S) =>
                    EffectiveSettings(Restricted(loaded, S))[key] = settings[key]

(***************************************************************************)
(* SpecMap: the default settings, and response arrays of up to MaxArrayLen *)
(* elements of every shape.                                                *)
(***************************************************************************)
\* A titled element with a callback descriptor of the given method
Rpc(title, method) ==
    JO("Title" :> JS(<<title>>)
       @@ "JsonRPCAction" :> JO("method" :> method @@ "parameters" :> JS(<<"u">>)))

El_TitleEmpty == JO("Title" :> JS(<<>>) @@ "Score" :> JI(9))
El_Score7 == JO("Title" :> JS(<<"G">>) @@ "Score" :> JS(<<" ", "7">>))
El_IconFile == JO("Title" :> JS(<<"I">>) @@ "IcoPath" :> JS(<<"a", ".", "p", "n", "g">>))
El_Icon3 == JO("Title" :> JS(<<"J">>) @@ "IcoPath" :> JI(3))
El_OpenUrl == Rpc("K", JS(<<"open_url">>))
El_Nope == Rpc("L", JS(<<"nope">>))
El_MethodNull == Rpc("N", JNull)
El_MethodList == Rpc("O", JL(<<JS(<<"open_url">>)>>))
El_RpcText == JO("Title" :> JS(<<"Q">>) @@ "JsonRPCAction" :> JS(<<"open_url">>))

MapElements ==
    {El_A, El_NoTitle, El_B5, El_Number, El_ScoreAbc, El_ScoreNull, El_Method5,
     El_TitleEmpty, El_Score7, El_IconFile, El_Icon3,
     El_OpenUrl, El_Nope, El_MethodNull, El_MethodList, El_RpcText}
MapOutcomes == {JsonOutcome(JL(a)) : a \in ArraysUpTo(MapElements, MaxArrayLen)}
MapQueries == {<<>>, <<"a">>}

InitMap ==
    /\ file = FileOf(EmptyObj)
    /\ pc = "idle"
    /\ param = <<>>
    /\ loaded = NotYet
    /\ settings = NotYet
    /\ used = NotYet
    /\ url = UrlNotConstructed
    /\ gets = 0
    /\ response = NotYet
    /\ results = <<>>
    /\ NoHostCalls
    /\ self = Constructed

QueryMap == \E q \in MapQueries : Query(q, TRUE)
RespondMap == pc = "waiting" /\ \E o \in MapOutcomes : Respond(o)

NextMap == QueryMap \/ RespondMap

SpecMap == InitMap /\ [][NextMap]_vars

\* query returned after the server answered with a JSON array
ArrayAnswered ==
    pc = "done" /\ gets = 1 /\ response.kind = "json" /\ response.json.t = "list"

\* A titled element query cannot map: its Score is not coercible by int(),
\* its IcoPath is a non-empty value that is not a text, or its callback
\* descriptor's method is a non-empty value that is not a text
Unmappable(el) ==
    \/ IntOf(Get(el, "Score", JI(0))).exc # "none"
    \/ Truthy(Get(el, "IcoPath", JNull)) /\ Get(el, "IcoPath", JNull).t # "str"
    \/ /\ Get(el, "JsonRPCAction", JNull).t = "obj"
       /\ Truthy(Get(el.v["JsonRPCAction"], "method", JNull))
       /\ Get(el.v["JsonRPCAction"], "method", JNull).t # "str"

SyntheticTitles ==
    {JS(<<"No results">>), JS(<<"HTTP Query Forwarder Ready">>)}
ErrorTitles ==
    {JS(<<"Error: Plugin Error">>), JS(<<"Error: ", "ValueError">>)}

\* res holds one entry per element of titled, in order, with its Title and
\* with Score int(Score), 0 when it has none
OnePerTitled(titled, res) ==
    /\ Len(res) = Len(titled)
    /\ \A k \in DOMAIN titled :
           /\ res[k]["Title"] = titled[k].v["Title"]
           /\ res[k]["Score"] = JI(IntOf(Get(titled[k], "Score", JI(0))).val)

\* The original statement of C2: for every array, one entry per titled
\* object element, in order, with its Title and its Score or 0.
C2_Original ==
    ArrayAnswered => OnePerTitled(SelectSeq(response.json.v, Qualifies), results)

\* What C2 holds as, titled being the titled object elements of the array
C2_Cases(titled, res) ==
    IF \E k \in DOMAIN titled : Unmappable(titled[k])
    THEN Len(res) = 1 /\ res[1]["Title"] \in ErrorTitles
    ELSE IF titled = <<>>
    THEN Len(res) = 1 /\ res[1]["Title"] \in SyntheticTitles
    ELSE OnePerTitled(titled, res)

\* C2: for every JSON array the server returns, query returns one error
\* entry when some titled object element cannot be mapped, one no-results or
\* ready entry when no element is an object with a non-empty Title, and
\* otherwise exactly one entry per titled object element, in the array's
\* order, with the element's Title and Score int(Score) or 0 when it has
\* none; the other elements add nothing.
C2_ArrayMapping ==
    ArrayAnswered => C2_Cases(SelectSeq(response.json.v, Qualifies), results)

\* C2's case: [{"Title":"A"}, {"NoTitle":true}, {"Title":"B","Score":5}]
\* gave two entries, A with score 0 and B with score 5.
C2_Witness ==
    /\ ArrayAnswered
    /\ response.json.v = <<El_A, El_NoTitle, El_B5>>
    /\ Len(results) = 2
    /\ results[1]["Title"] = JS(<<"A">>) /\ results[1]["Score"] = JI(0)
    /\ results[2]["Title"] = JS(<<"B">>) /\ results[2]["Score"] = JI(5)

\* The method names a callable attribute of the handler
NamesCallable(method) == method.t = "str" /\ method.v \in HandlerCallables

\* The element without its callback descriptor
WithoutRpc(el) == JO([k \in DOMAIN el.v \ {"JsonRPCAction"} |-> el.v[k]])

\* The array with the descriptor of its i-th element removed
DescriptorRemoved(items, i) ==
    [k \in DOMAIN items |-> IF k = i THEN WithoutRpc(items[k]) ELSE items[k]]

\* C3: a titled element whose JsonRPCAction is an object with a method, of
\* any JSON value, that names no callable attribute of the handler is
\* returned as the same element without the descriptor would be: query
\* returns the list it returns for the array with that descriptor removed.
C3_UncallableMethodDropped ==
    ArrayAnswered =>
        \A i \in DOMAIN response.json.v :
            (/\ Qualifies(response.json.v[i])
             /\ Get(response.json.v[i], "JsonRPCAction", JNull).t = "obj"
             /\ ~NamesCallable(Get(response.json.v[i].v["JsonRPCAction"], "method", JNull)))
            => results = Conclude(MapItems(DescriptorRemoved(response.json.v, i), <<>>),
                                  url, param).val

(***************************************************************************)
(* SpecUrl: settings that steer the URL construction, and every query text *)
(* over QueryAlphabet up to MaxQueryLen, plus the placeholder texts.       *)
(***************************************************************************)
QueryAlphabet == {"a", " ", "+", "&", "%", "é"}
UrlQueries == TextsUpTo(QueryAlphabet, MaxQueryLen) \cup {P_query, P_query_param_name}

\* Addresses: with and without a scheme, with an embedded port (81, 0, 0080,
\* empty, not a number), without a host
UrlAddresses ==
    {T_h, T_h \o <<":", "8", "1">>, T_h \o <<":", "0">>, T_h \o <<":", "0", "0", "8", "0">>,
     T_h \o <<":">>, T_h \o <<":", "x">>, <<"h">>, <<>>}
\* Files of the default mode: an address and a port
AddressFiles ==
    {FileOf(JO("server_address" :> JS(a) @@ d)) :
         a \in UrlAddresses, d \in {<<>>, "server_port" :> JS(<<>>)}}
\* Files of the default mode: a parameter name, the encode flag and a path
NameFiles ==
    {FileOf(JO("server_address" :> JS(T_h) @@ n @@ e @@ p)) :
         n \in {<<>>, "query_param_name" :> JS(<<"a", "&", "b">>)},
         e \in {<<>>, "url_encode_query" :> JB(FALSE)},
         p \in {<<>>, "server_path" :> JS(<<"p">>),
                "server_path" :> JS(<<"/", "p", "?", "x">>)}}

T_xyq == T_xy \o <<"?">>
UrlTemplates ==
    {T_xyq \o P_encoded_query,
     T_xyq \o <<"s", "=">> \o P_query,
     <<"x", "/", "y", "?">> \o P_query_param_name \o <<"=">> \o P_query,
     T_xy,
     T_xyq \o <<"a", "=", "1", "&", "b", "=", "2">>,
     T_xyq \o <<"n", "=">> \o P_query_param_name}
\* Files with a custom template
TemplateFiles ==
    {FileOf(JO("custom_url_template" :> JS(t) @@ n @@ e)) :
         t \in UrlTemplates,
         n \in {<<>>, "query_param_name" :> JS(<<"k">>)},
         e \in {<<>>, "url_encode_query" :> JB(FALSE)}}
UrlFiles == AddressFiles \cup NameFiles \cup TemplateFiles

InitUrl ==
    /\ file \in UrlFiles
    /\ pc = "idle"
    /\ param = <<>>
    /\ loaded = NotYet
    /\ settings = NotYet
    /\ used = NotYet
    /\ url = UrlNotConstructed
    /\ gets = 0
    /\ response = NotYet
    /\ results = <<>>
    /\ NoHostCalls
    /\ self = Constructed

QueryUrl == \E q \in UrlQueries : Query(q, TRUE)
RespondUrl == pc = "waiting" /\ Respond(ExcOutcome("ConnectionError"))

NextUrl == QueryUrl \/ RespondUrl

SpecUrl == InitUrl /\ [][NextUrl]_vars

\* The GET is in flight to a URL built without / from a custom template
DefaultMode == pc = "waiting" /\ used.custom_url_template = <<>>
TemplateMode == pc = "waiting" /\ used.custom_url_template # <<>>

\* The (name, value) pairs of the query component of a URL, decoded
PairsOf(u) == ParseQsl(UrlSplit(u).query)

\* C6: in default mode with url_encode_query true, for every query text the
\* query component of the requested URL, parsed and percent-decoded, is
\* exactly the one pair (query_param_name, query text).
C6_QueryRoundTrips ==
    (DefaultMode /\ used.url_encode) =>
        PairsOf(url) = << <<used.query_param_name, param>> >>

RECURSIVE Substituted(_, _, _)
\* The template with every placeholder occurrence of the template replaced
\* by its value, in one scan from left to right
Substituted(template, p, name) ==
    IF template = <<>> THEN <<>>
    ELSE IF StartsWith(template, P_encoded_query)
    THEN QuotePlus(p) \o Substituted(From(template, Len(P_encoded_query) + 1), p, name)
    ELSE IF StartsWith(template, P_query)
    THEN p \o Substituted(From(template, Len(P_query) + 1), p, name)
    ELSE IF StartsWith(template, P_query_param_name)
    THEN name \o Substituted(From(template, Len(P_query_param_name) + 1), p, name)
    ELSE <<template[1]>> \o Substituted(Tail(template), p, name)

\* A URL split and put together again
Reassembled1(s) == UrlUnsplit(s.scheme, s.netloc, s.path, s.query, s.fragment)
Reassembled(u) == Reassembled1(UrlSplit(u))

\* C7: with a custom template that contains {query} or {encoded_query}, the
\* requested URL is the template with each placeholder occurrence replaced
\* by its value, prefixed with http:// when it has no scheme, with no
\* parameter appended.
C7_TemplateSubstituted ==
    (TemplateMode /\ HasQueryPlaceholder(used.custom_url_template)) =>
        url = Reassembled(EnsureScheme(
                  Substituted(used.custom_url_template, param, used.query_param_name)))

\* s ends with p
EndsWith(s, p) == Len(s) >= Len(p) /\ SubSeq(s, Len(s) - Len(p) + 1, Len(s)) = p

\* C8: with a custom template that contains neither {query} nor
\* {encoded_query}, the requested URL keeps the template's parameters in
\* order and appends one parameter under query_param_name: with
\* url_encode_query true its value decodes back to the query text, with
\* url_encode_query false it is the raw query text.
C8_ParameterAppended ==
    (TemplateMode /\ ~HasQueryPlaceholder(used.custom_url_template)) =>
        /\ used.url_encode =>
               PairsOf(url) =
                   PairsOf(EnsureScheme(Substituted(used.custom_url_template, param,
                                                    used.query_param_name)))
                   \o << <<used.query_param_name, param>> >>
        /\ ~used.url_encode =>
               EndsWith(UrlSplit(url).query, used.query_param_name \o <<"=">> \o param)

\* The port an address carries, as a number's text; <<>> when it carries none
EmbeddedPort1(p) == IF p = <<>> THEN <<>> ELSE IntText(DigitsVal(p))
EmbeddedPort(addr) == EmbeddedPort1(PortText(UrlSplit(EffectiveAddr(addr)).netloc))

\* C9: in default mode the port of the requested URL is the port embedded in
\* server_address when it carries one, else server_port when that is not
\* empty, else none, for every port the address carries.
C9_PortPrecedence ==
    DefaultMode =>
        PortText(UrlSplit(url).netloc) =
            IF EmbeddedPort(used.server_addr) # <<>> THEN EmbeddedPort(used.server_addr)
            ELSE used.server_port_str

(***************************************************************************)
(* SpecHost: one invocation of query answered with titled elements that    *)
(* carry every combination of ContextData and ContextMenuItems, then       *)
(* context_menu on the payload of a returned entry.                        *)
(***************************************************************************)
MaxMenuLen == 2

\* Menu item definitions: titled, untitled, not an object, with a callback,
\* with a method naming query, with a method or an icon that is a number,
\* with a Score
It_X == JO("Title" :> JS(<<"X">>))
It_NoTitle == JO("SubTitle" :> JS(<<"s">>))
It_Number == JI(7)
It_Open == Rpc("O", JS(<<"open_url">>))
It_Query == Rpc("Q", JS(<<"query">>))
It_Method5 == Rpc("F", JI(5))
It_Icon3 == JO("Title" :> JS(<<"I">>) @@ "IcoPath" :> JI(3))
It_Score == JO("Title" :> JS(<<"S">>) @@ "SubTitle" :> JS(<<"s">>) @@ "Score" :> JI(9))
MenuItemDefs == {It_X, It_NoTitle, It_Number, It_Open, It_Query, It_Method5, It_Icon3, It_Score}

\* What an element gives as ContextMenuItems: nothing, a text, a list
MenuParts ==
    {<<>>, "ContextMenuItems" :> JS(<<"x">>)}
    \cup {"ContextMenuItems" :> JL(a) : a \in ArraysUpTo(MenuItemDefs, MaxMenuLen)}
\* What an element gives as ContextData: nothing, null, a text, objects,
\* among them objects with the keys of the wrapper
DataParts ==
    {<<>>} \cup
    {"ContextData" :> d :
        d \in {JNull, JS(<<"d">>), JO("k" :> JI(1)), JO("original_data" :> JI(1)),
               JO("defined_menu_items" :> JI(5)),
               JO("defined_menu_items" :> JS(<<"x", "y">>)),
               JO("defined_menu_items" :> JL(<<It_X>>))}}
HostElements ==
    {JO(("Title" :> JS(<<"A">>)) @@ d @@ m) : d \in DataParts, m \in MenuParts}
El_MethodQuery == Rpc("R", JS(<<"query">>))
HostOutcomes ==
    {JsonOutcome(JL(<<el>>)) : el \in HostElements}
    \cup {JsonOutcome(JL(a)) : a \in {<<>>, <<El_OpenUrl>>, <<El_MethodQuery>>, <<El_Method5>>,
                                      <<El_OpenUrl, El_A>>}}
    \cup {ExcOutcome("ReadTimeout")}

InitHost ==
    /\ file = FileOf(EmptyObj)
    /\ pc = "idle"
    /\ param = <<>>
    /\ loaded = NotYet
    /\ settings = NotYet
    /\ used = NotYet
    /\ url = UrlNotConstructed
    /\ gets = 0
    /\ response = NotYet
    /\ results = <<>>
    /\ NoHostCalls
    /\ self = Constructed

QueryHost == pc = "idle" /\ Query(<<"a">>, TRUE)
RespondHost == pc = "waiting" /\ \E o \in HostOutcomes : Respond(o)
\* The user asks for the context menu of one of the returned entries
ContextMenuHost == pc = "done" /\ \E i \in DOMAIN results : ContextMenu(PayloadOf(results[i]))

NextHost == QueryHost \/ RespondHost \/ ContextMenuHost

SpecHost == InitHost /\ [][NextHost]_vars

\* The titled object elements of the answered array
TitledOf(o) == SelectSeq(o.json.v, Qualifies)
\* query returned the entries mapped from the array's titled elements
Mapped ==
    /\ ArrayAnswered
    /\ TitledOf(response) # <<>>
    /\ \A k \in DOMAIN TitledOf(response) : ~Unmappable(TitledOf(response)[k])

\* The wrapper around an element's ContextData and ContextMenuItems
WrapperOf(el) ==
    JO("original_data" :> Get(el, "ContextData", JNull)
       @@ "defined_menu_items" :> Get(el, "ContextMenuItems", JNull))
\* The entry carries the element's ContextData as it is, no key for None
Verbatim(el, entry) ==
    IF Get(el, "ContextData", JNull) # JNull
    THEN "ContextData" \in DOMAIN entry /\ entry["ContextData"] = el.v["ContextData"]
    ELSE "ContextData" \notin DOMAIN entry
Wrapped(el, entry) ==
    "ContextData" \in DOMAIN entry /\ entry["ContextData"] = WrapperOf(el)

\* The original statement of C14: the wrapper for every element that
\* supplies a list of menu item definitions, else its ContextData verbatim,
\* no ContextData key when it supplies neither.
C14_Original ==
    Mapped =>
        \A k \in DOMAIN results :
            IF Get(TitledOf(response)[k], "ContextMenuItems", JNull).t = "list"
            THEN Wrapped(TitledOf(response)[k], results[k])
            ELSE Verbatim(TitledOf(response)[k], results[k])

\* C14: for every titled element, the ContextData of its entry is the
\* wrapper {original_data, defined_menu_items} when the element's
\* ContextMenuItems is a non-empty list; otherwise (no ContextMenuItems, an
\* empty list, a value that is not a list) it is the element's ContextData
\* verbatim, and the entry has no ContextData key when that is absent or null.
C14_ContextDataAttached ==
    Mapped =>
        /\ Len(results) = Len(TitledOf(response))
        /\ \A k \in DOMAIN results :
               IF /\ Get(TitledOf(response)[k], "ContextMenuItems", JNull).t = "list"
                  /\ Get(TitledOf(response)[k], "ContextMenuItems", JNull).v # <<>>
               THEN Wrapped(TitledOf(response)[k], results[k])
               ELSE Verbatim(TitledOf(response)[k], results[k])

\* C14's case: an element with ContextData "d" and a two-item menu list got
\* the wrapper holding both.
C14_Witness ==
    /\ Mapped
    /\ Len(results) = 1
    /\ Get(response.json.v[1], "ContextData", JNull) = JS(<<"d">>)
    /\ Get(response.json.v[1], "ContextMenuItems", JNull) = JL(<<It_X, It_Open>>)
    /\ results[1]["ContextData"] =
           JO("original_data" :> JS(<<"d">>) @@ "defined_menu_items" :> JL(<<It_X, It_Open>>))

\* context_menu was invoked on the payload of the k-th returned entry
MenuAskedFor(k) == menu_pc # "idle" /\ menu_data = PayloadOf(results[k])
\* The menu holds the placeholder: the only entry without a SubTitle
IsPlaceholder(res) == Len(res) = 1 /\ "SubTitle" \notin DOMAIN res[1]
\* res holds one menu entry per item of qualifying, in order, with its Title
\* and without Score; the placeholder when there is none
OnePerItem(qualifying, res) ==
    IF qualifying = <<>> THEN IsPlaceholder(res)
    ELSE /\ Len(res) = Len(qualifying)
         /\ \A j \in DOMAIN qualifying :
                /\ res[j]["Title"] = qualifying[j].v["Title"]
                /\ "Score" \notin DOMAIN res[j]
                /\ "SubTitle" \in DOMAIN res[j]

\* C15: for every titled element whose ContextMenuItems is a list,
\* context_menu on the ContextData query attached to its entry returns
\* exactly one menu entry per item that is an object with a non-empty Title,
\* in the list's order, with that Title and without a Score key; the
\* placeholder is returned only when no item qualifies.
C15_MenuRoundTrip ==
    Mapped =>
        \A k \in DOMAIN results :
            (/\ MenuAskedFor(k)
             /\ Get(TitledOf(response)[k], "ContextMenuItems", JNull).t = "list")
            => /\ menu_pc = "done"
               /\ OnePerItem(SelectSeq(TitledOf(response)[k].v["ContextMenuItems"].v, Qualifies),
                             menu_results)

\* C16: when context_menu produces no menu entry it returns exactly one
\* placeholder entry, with the "original data present" text exactly when the
\* server supplied a ContextData value for the selected entry and with "No
\* context actions defined by server" otherwise.
C16_PlaceholderText ==
    Mapped =>
        \A k \in DOMAIN results :
            (MenuAskedFor(k) /\ menu_pc = "done" /\ IsPlaceholder(menu_results))
            => /\ menu_results[1]["Title"] \in {JS(T_NoSpecificActions), JS(T_NoActions)}
               /\ menu_results[1]["Title"] = JS(T_NoSpecificActions)
                      <=> Get(TitledOf(response)[k], "ContextData", JNull) # JNull

\* C17: context_menu never raises outward: for every payload query can
\* attach (a server ContextData value of any kind, the wrapper) and for an
\* absent payload it returns a list of at least one entry.
C17_ContextMenuNeverRaises ==
    /\ menu_pc # "raised"
    /\ menu_pc = "done" => Len(menu_results) >= 1

\* The entry's callback descriptor, if it has one, names one of the five
\* callbacks
NamesCallback(entry) ==
    "JsonRPCAction" \in DOMAIN entry
    => entry["JsonRPCAction"].v["method"].v \in CallbackMethods

\* C19: in every entry query returns and in every menu entry context_menu
\* returns, the method of a JsonRPCAction is one of open_url, shell_run,
\* copy_to_clipboard, change_query, flow_show_msg, never another attribute
\* of the handler.
C19_ClosedCallbackSet ==
    /\ \A i \in DOMAIN results : NamesCallback(results[i])
    /\ \A j \in DOMAIN menu_results : NamesCallback(menu_results[j])

(***************************************************************************)
(* SpecCallbacks: the host invokes the callbacks with parameters of every  *)
(* JSON type, the host-facing call and the fallback succeeding or failing. *)
(***************************************************************************)
CallbackValues ==
    {JS(<<"u">>), JS(<<>>), JI(5), JNull, JB(TRUE), JL(<<JS(<<"c">>)>>), JL(<<>>),
     JO("k" :> JI(1))}
FlagValues == {JB(TRUE), JB(FALSE), JS(<<"T", "r", "u", "e">>), JS(<<"n", "o">>), JNull}
IconValues == {JNull, JS(<<"a", ".", "p", "n", "g">>), JI(3)}
Envs == [primary : BOOLEAN, fallback : BOOLEAN]

InitCallbacks ==
    /\ file = FileOf(EmptyObj)
    /\ pc = "idle"
    /\ param = <<>>
    /\ loaded = NotYet
    /\ settings = NotYet
    /\ used = NotYet
    /\ url = UrlNotConstructed
    /\ gets = 0
    /\ response = NotYet
    /\ results = <<>>
    /\ NoHostCalls
    /\ self = Constructed

OpenUrlHost == \E u \in CallbackValues, env \in Envs : open_url(u, env)
ShellRunHost == \E c \in CallbackValues, env \in Envs : shell_run(c, env)
CopyToClipboardHost ==
    \E t \in CallbackValues, d \in FlagValues, s \in FlagValues, env \in Envs :
        copy_to_clipboard(t, d, s, env)
ChangeQueryHost ==
    \E q \in CallbackValues, r \in FlagValues, env \in Envs : change_query(q, r, env)
FlowShowMsgHost ==
    \E t \in CallbackValues, s \in {JS(<<"m">>), JI(5)}, i \in IconValues, env \in Envs :
        flow_show_msg(t, s, i, env)

NextCallbacks ==
    OpenUrlHost \/ ShellRunHost \/ CopyToClipboardHost \/ ChangeQueryHost \/ FlowShowMsgHost

SpecCallbacks == InitCallbacks /\ [][NextCallbacks]_vars

\* C18: every callback (open_url, shell_run, copy_to_clipboard,
\* change_query, flow_show_msg) returns no value and never propagates an
\* exception, for every parameter value, also when its host-facing call
\* fails and when the error-reporting fallback fails too.
C18_CallbacksNeverRaise ==
    call # NotYet => call.outcome = "returned" /\ call.value = JNull

(***************************************************************************)
(* The list query returns as a whole, checked under SpecMap.               *)
(***************************************************************************)
\* An entry mapped from an array element carries a Score; the error,
\* no-results and ready entries carry none
IsMappedEntry(entry) == "Score" \in DOMAIN entry
OneSynthetic(res) ==
    /\ Len(res) = 1
    /\ ~IsMappedEntry(res[1])
    /\ res[1]["Title"] \in SyntheticTitles \cup ErrorTitles
AllMapped(titled, res) ==
    /\ titled # <<>>
    /\ OnePerTitled(titled, res)
    /\ \A i \in DOMAIN res : IsMappedEntry(res[i])

\* C20: the list query returns is never a mix of mapped and synthetic
\* entries: it is either exactly the mapped entries of the response array or
\* exactly one synthetic entry (error, no-results, ready); when the mapping
\* of one element fails, the entries mapped before it are discarded.
C20_NeverMixed ==
    ArrayAnswered =>
        /\ OneSynthetic(results) \/ AllMapped(TitledOf(response), results)
        /\ (\E k \in DOMAIN TitledOf(response) : Unmappable(TitledOf(response)[k]))
           => OneSynthetic(results) /\ results[1]["Title"] \in ErrorTitles

\* C20's case: the third element's Score could not be coerced after two
\* entries had been mapped; the list is the one error entry.
C20_Witness ==
    /\ ArrayAnswered
    /\ response.json.v = <<El_A, El_B5, El_ScoreAbc>>
    /\ MapItem(El_A).exc = "none" /\ MapItem(El_B5).exc = "none"
    /\ results = <<DataErrorEntry(MapItem(El_ScoreAbc))>>

(***************************************************************************)
(* SpecFrame: any sequence of query, context_menu and callback             *)
(* invocations on one handler, the user editing the settings file between  *)
(* them.                                                                   *)
(***************************************************************************)
\* The path exists but is not a regular file (a directory): the loader
\* takes the creation branch and open(..., 'w') raises
FileNotAFile == [kind |-> "directory", doc |-> JNull]
FrameFiles ==
    {FileMissing, FileUnparsable, FileUnreadable, FileNotAFile,
     FileOf(JS(<<"x">>)), FileOf(EmptyObj),
     FileOf(JO("request_timeout" :> JNull)),
     FileOf(JO("custom_url_template" :> JS(T_xy)))}
El_Menu == JO("Title" :> JS(<<"A">>) @@ "ContextMenuItems" :> JL(<<It_X>>))
FrameOutcomes ==
    {JsonOutcome(JL(<<El_A>>)), JsonOutcome(JL(<<El_Menu>>)), ExcOutcome("ReadTimeout")}

InitFrame ==
    /\ file \in FrameFiles
    /\ pc = "idle"
    /\ param = <<>>
    /\ loaded = NotYet
    /\ settings = NotYet
    /\ used = NotYet
    /\ url = UrlNotConstructed
    /\ gets = 0
    /\ response = NotYet
    /\ results = <<>>
    /\ NoHostCalls
    /\ self = Constructed

QueryFrame == \E w \in BOOLEAN : Query(<<"a">>, w)
RespondFrame == pc = "waiting" /\ \E o \in FrameOutcomes : Respond(o)
EditFrame == \E f \in FrameFiles : EditSettingsFile(f)
ContextMenuFrame ==
    pc = "done" /\ \E i \in DOMAIN results : ContextMenu(PayloadOf(results[i]))
OpenUrlFrame == \E env \in Envs : open_url(JS(<<"u">>), env)
ShellRunFrame == \E env \in Envs : shell_run(JL(<<JS(<<"c">>)>>), env)
CopyToClipboardFrame ==
    \E env \in Envs : copy_to_clipboard(JS(<<"u">>), JB(FALSE), JS(<<"T", "r", "u", "e">>), env)
ChangeQueryFrame == \E env \in Envs : change_query(JS(<<"u">>), JB(TRUE), env)
FlowShowMsgFrame == \E env \in Envs : flow_show_msg(JS(<<"u">>), JS(<<"m">>), JNull, env)

\* A step of the handler: of query, of context_menu or of a callback
HandlerStep ==
    \/ QueryFrame \/ RespondFrame \/ ContextMenuFrame
    \/ OpenUrlFrame \/ ShellRunFrame \/ CopyToClipboardFrame
    \/ ChangeQueryFrame \/ FlowShowMsgFrame

NextFrame ==
    \/ QueryFrame \/ RespondFrame \/ EditFrame \/ ContextMenuFrame
    \/ OpenUrlFrame \/ ShellRunFrame \/ CopyToClipboardFrame
    \/ ChangeQueryFrame \/ FlowShowMsgFrame

SpecFrame == InitFrame /\ [][NextFrame]_vars

\* The only write of the handler to the settings file: the documented
\* defaults, put where no file was
CreatesDefaults ==
    /\ file = FileMissing
    /\ file' = FileOf(JO(DefaultSettingsMap))
    /\ EffectiveSettings(file') = DefaultSettingsMap
\* What a step of the handler does to the file and to its fields: the
\* fields stay as constructed; the file is left as it is, or created with
\* the defaults by the step that starts a query; and that step takes its
\* effective settings from the file as it is when query is called
FrameStep ==
    HandlerStep =>
        /\ self' = self
        /\ file' = file \/ (QueryFrame /\ CreatesDefaults)
        /\ QueryFrame => /\ loaded' = file
                         /\ settings' = EffectiveSettings(file)

\* C21: after any sequence of query, context_menu and callback invocations
\* the handler's fields (settings, plugindir, icon, resolved default icon)
\* are as constructed; no invocation writes an existing settings file: query
\* writes the file only when it is missing, and then exactly the documented
\* defaults; each query reads the file as it then is, so an edit of the file
\* takes effect on the next query.
C21_Frame == [](self = Constructed) /\ [][FrameStep]_vars

\* C21's case: query found no settings file and created it with the
\* defaults; context_menu and a callback were invoked afterwards; the
\* handler's fields are as constructed.
C21_Witness ==
    /\ pc = "done"
    /\ loaded = FileMissing
    /\ file = FileOf(JO(DefaultSettingsMap))
    /\ menu_pc = "done"
    /\ call # NotYet /\ call.method = "change_query"
    /\ self = Constructed

\* C21's other case: the user put a template into the file after a query
\* had used the defaults it created, and the next query requested the
\* template's URL.
C21_EditTakesEffect ==
    /\ pc = "waiting"
    /\ loaded = FileOf(JO("custom_url_template" :> JS(T_xy)))
    /\ file = loaded
    /\ StartsWith(url, T_xy)
    /\ menu_data # NotYet

=============================================================================
